---- MODULE Spec2Model ----
(***************************************************************************)
(* Model of src/src/logging/logger.py: the correlation-id context          *)
(* variable, the enrichment processors add_correlation_id / add_timestamp, *)
(* configure_logging with its level filter and its context-bound service   *)
(* and environment fields, and the ASGI LoggerMiddleware.                  *)
(*                                                                         *)
(* Requests are asyncio tasks: the code between two awaits runs without    *)
(* interruption, so a request that is inside a synchronous segment of      *)
(* LoggerMiddleware.__call__ keeps the processor until it awaits the       *)
(* wrapped app or returns.                                                 *)
(***************************************************************************)
EXTENDS Integers, Sequences, FiniteSets, TLC

\* ------------------------------------------------------------------ bounds
NumReqs == 2       \* calls of LoggerMiddleware.__call__ in one behaviour
NumCtx == 2        \* logical contexts (asyncio tasks) the calls run in
MaxSteps == 2      \* steps the wrapped app takes in one call
MaxClock == 1      \* wall-clock readings are 0..MaxClock

Reqs == 1..NumReqs
Ctxs == 1..NumCtx
Clock == 0..MaxClock

\* --------------------------------------------------------------- constants
\* status_code = 500 before the app is awaited
DefaultStatus == 500

\* ------------------------------------------------------------------- bytes
\* A bytes object: its text when it is valid UTF-8, and whether it is.
Bytes(s) == [text |-> s, utf8 |-> TRUE]
BadBytes == [text |-> "\\xff", utf8 |-> FALSE]

\* bytes.decode(): defined on valid UTF-8 only (UnicodeDecodeError otherwise)
CanDecode(b) == b.utf8
Decode(b) == b.text

\* str(uuid4()): the n-th identifier drawn; draws never repeat
Uuid(n) == "uuid-" \o ToString(n)

\* datetime.isoformat() + "Z" of a clock reading
IsoZ(t) == "T" \o ToString(t) \o "Z"

\* --------------------------------------------------------------- dict ops
\* d[k] = v on a Python dict
DictSet(d, k, v) == [x \in (DOMAIN d) \cup {k} |-> IF x = k THEN v ELSE d[x]]

\* dict(pairs): a later pair with the same key replaces an earlier one
RECURSIVE DictOfPairs(_)
DictOfPairs(pairs) ==
    IF pairs = <<>> THEN <<>>
    ELSE LET n == Len(pairs)
             rest == DictOfPairs(SubSeq(pairs, 1, n - 1))
         IN  \* the dict as a sequence of pairs with distinct keys
             SelectSeq(rest, LAMBDA p : p[1] # pairs[n][1]) \o <<pairs[n]>>

\* dict.get(key, default) on the result of DictOfPairs
DictGet(d, key, default) ==
    IF \E i \in 1..Len(d) : d[i][1] = key
    THEN (CHOOSE p \in {d[i] : i \in 1..Len(d)} : p[1] = key)[2]
    ELSE default

\* ------------------------------------------------------------- exceptions
NoExc == [cls |-> "none", msg |-> ""]
\* what the wrapped app may raise: an Exception, or a cancellation
AppError == [cls |-> "RuntimeError", msg |-> "boom"]
Cancelled == [cls |-> "CancelledError", msg |-> ""]
\* raised by the log call of event ev when a processor or the sink write fails
LogFailure(ev) == [cls |-> "LogFailure", msg |-> ev]
\* raised by bytes.decode() on bytes that are not UTF-8
DecodeError == [cls |-> "UnicodeDecodeError", msg |-> "invalid start byte"]

\* isinstance(e, Exception): asyncio.CancelledError derives from BaseException
IsException(e) == e.cls \notin {"none", "CancelledError"}

\* str(e)
Str(e) == e.msg

\* ------------------------------------------------------------------ inputs
XCID == Bytes("x-correlation-id")

\* scope["headers"]: lists of (name, value) pairs
HeaderLists ==
    { <<>>,
      << <<XCID, Bytes("")>> >>,
      << <<XCID, Bytes("abc-123")>> >>,
      << <<XCID, BadBytes>> >>,
      << <<XCID, Bytes("abc-123")>>, <<XCID, Bytes("xyz")>> >>,
      << <<XCID, Bytes("abc-123")>>, <<XCID, Bytes("")>> >>,
      << <<Bytes("X-Correlation-Id"), Bytes("abc-123")>> >> }

NoScope == [type |-> "none", method |-> "", path |-> "", headers |-> <<>>]

Scopes ==
    { [type |-> "http", method |-> "GET", path |-> "/", headers |-> h] :
        h \in HeaderLists }
    \cup { [type |-> "websocket", method |-> "", path |-> "/",
            headers |-> <<>>] }

\* ASGI messages the wrapped app sends
StartMsg(st) == [type |-> "http.response.start", status |-> st]
BodyMsg == [type |-> "http.response.body", status |-> 0]
Messages == {StartMsg(200), StartMsg(404), BodyMsg}

\* keyword arguments of the wrapped app's own log calls
NoKw == <<>>
CallerKw == [correlation_id |-> "caller-cid", timestamp |-> "caller-ts"]
AppKws == {NoKw, CallerKw}

AppExcs == {AppError, Cancelled}

\* ------------------------------------------------------------------- state
VARIABLES
    correlation_id_var,  \* the ContextVar: context -> bound id ("": default)
    uuidCtr,             \* uuid4() draws so far
    now,                 \* the wall clock datetime.utcnow() reads
    sink,                \* lines written to the sink, oldest first
    pc,                  \* where each call of __call__ stands
    scope,               \* the scope each call was given
    ctxOf,               \* the context each call runs in (0: not yet called)
    correlation_id,      \* local correlation_id of each call (line 129)
    bindingAtCall,       \* what the context had bound when the call was made
    start_time,          \* local start_time of each call
    status_code,         \* local status_code of each call
    raised,              \* the exception propagating in / out of each call
    appRaised,           \* the exception the wrapped app raised in each call
    steps,               \* steps the wrapped app has taken in each call
    appCalls,            \* the arguments of each await self.app(...)
    sent,                \* messages the caller's send received
    lastGet,             \* the app's last get_correlation_id() in each call
    config,              \* what structlog.configure was given (lines 85-93)
    bound_contextvars,   \* structlog.contextvars: context -> bound fields
    appSent,             \* messages the app passed to the send it was given
    lastSet,             \* the app's last set_correlation_id() in each call
    lastLog              \* the last log call made in each call

vars == <<correlation_id_var, uuidCtr, now, sink, pc, scope, ctxOf,
          correlation_id, bindingAtCall, start_time, status_code, raised,
          appRaised, steps, appCalls, sent, lastGet, config,
          bound_contextvars, appSent, lastSet, lastLog>>

NoGet == [ret |-> "", before |-> "", after |-> "", n |-> 0]

\* no set_correlation_id() yet; atGet: the get_correlation_id() calls made
\* before the set
NoSet == [given |-> "", ret |-> "", n |-> 0, atGet |-> 0]

\* no log call yet; entered: the processors ran; wrote: lines written
NoLog == [method_name |-> "", n |-> 0, entered |-> FALSE, wrote |-> 0,
          failed |-> FALSE, drawn |-> 0]

\* ----------------------------------------------------------- configuration
\* logging.getLevelName(level) of a level name (line 88)
getLevelName(level) ==
    CASE level = "DEBUG" -> 10
      [] level = "INFO" -> 20
      [] level = "WARNING" -> 30
      [] level = "ERROR" -> 40
      [] level = "CRITICAL" -> 50

\* the level names configure_logging is called with
Levels == {"DEBUG", "INFO", "ERROR"}

\* the severity a method of the bound logger logs at
MethodLevel(method_name) ==
    CASE method_name = "debug" -> 10
      [] method_name = "info" -> 20
      [] method_name = "warning" -> 30
      [] method_name \in {"error", "exception"} -> 40
      [] method_name = "critical" -> 50

\* a bound logger that filters nothing
is_nop_never(min_level, method_name) == FALSE

\* structlog.make_filtering_bound_logger(min_level): the methods below
\* min_level are no-ops that return at once
is_nop(min_level, method_name) == MethodLevel(method_name) < min_level

\* before configure_logging has run
NotConfigured == [configured |-> FALSE, min_level |-> 0]

\* configure_logging(level, service_name=..., environment=...): what
\* structlog.configure receives and what bind_contextvars binds in the
\* calling context
configure_logging(level, service_name, environment) ==
    [config |-> [configured |-> TRUE, min_level |-> getLevelName(level)],
     bound |-> [service |-> service_name, environment |-> environment]]

\* bind_contextvars(**kw) on the fields bound in one context
bind_contextvars(ctx, kw) ==
    [k \in (DOMAIN ctx) \cup (DOMAIN kw) |->
        IF k \in DOMAIN kw THEN kw[k] ELSE ctx[k]]

\* the defaults of configure_logging's parameters (lines 54-57)
DefaultConfig == configure_logging("INFO", "app", "development")

\* ----------------------------------------------------- correlation context
\* correlation_id_var.get() in context c
VarGet(store, c) == store[c]

\* a module-level global in place of the ContextVar: one slot for all contexts
VarSetGlobal(store, c, v) == [x \in DOMAIN store |-> v]

\* correlation_id_var.set(v) in context c
VarSet(store, c, v) == [store EXCEPT ![c] = v]

\* get_correlation_id() that also binds the id it generates
get_correlation_id_binding(store, c, n) ==
    LET v == store[c]
    IN  IF v # "" THEN [ret |-> v, drawn |-> 0, store |-> store]
        ELSE [ret |-> Uuid(n + 1), drawn |-> 1,
              store |-> [store EXCEPT ![c] = Uuid(n + 1)]]

\* get_correlation_id() without the uuid4() fallback
get_correlation_id_unset(store, c, n) ==
    [ret |-> store[c], drawn |-> 0, store |-> store]

\* get_correlation_id() that never reads the ContextVar
get_correlation_id_fresh(store, c, n) ==
    [ret |-> Uuid(n + 1), drawn |-> 1, store |-> store]

\* get_correlation_id(): the value returned and whether uuid4() was drawn
get_correlation_id(store, c, n) ==
    LET v == VarGet(store, c)
    IN  IF v # "" THEN [ret |-> v, drawn |-> 0, store |-> store]
        ELSE [ret |-> Uuid(n + 1), drawn |-> 1, store |-> store]

\* a set_correlation_id that returns an id without binding it
set_correlation_id_unbound(store, c, given, n) ==
    [ret |-> IF given # "" THEN given ELSE Uuid(n + 1),
     drawn |-> IF given # "" THEN 0 ELSE 1,
     store |-> store]

\* a set_correlation_id that leaves an id that is already bound in place
set_correlation_id_once(store, c, given, n) ==
    LET cid == IF given # "" THEN given ELSE Uuid(n + 1)
    IN  [ret |-> cid,
         drawn |-> IF given # "" THEN 0 ELSE 1,
         store |-> IF store[c] # "" THEN store ELSE [store EXCEPT ![c] = cid]]

\* set_correlation_id(given): the id bound and returned; given = "" stands
\* for None too, as `correlation_id or str(uuid4())` treats both alike
set_correlation_id(store, c, given, n) ==
    LET cid == IF given # "" THEN given ELSE Uuid(n + 1)
    IN  [ret |-> cid,
         drawn |-> IF given # "" THEN 0 ELSE 1,
         store |-> VarSet(store, c, cid)]

\* ------------------------------------------------------ enrichment pipeline
\* add_correlation_id that keeps a correlation_id the caller passed
add_correlation_id_keep(event_dict, cid) ==
    IF cid # "" /\ "correlation_id" \notin DOMAIN event_dict
    THEN DictSet(event_dict, "correlation_id", cid)
    ELSE event_dict

\* add_correlation_id(logger, method_name, event_dict), given the id read
add_correlation_id(event_dict, cid) ==
    IF cid # "" THEN DictSet(event_dict, "correlation_id", cid) ELSE event_dict

\* add_timestamp(logger, method_name, event_dict), given the clock reading
add_timestamp(event_dict, t) == DictSet(event_dict, "timestamp", IsoZ(t))

\* structlog.stdlib.add_log_level: logger.exception logs at level "error"
add_log_level(event_dict, method_name) ==
    DictSet(event_dict, "level",
            IF method_name = "exception" THEN "error" ELSE method_name)

\* structlog.contextvars.merge_contextvars: the fields bound in the calling
\* context, under the fields the event already has (dict.setdefault)
merge_contextvars(event_dict, ctx) ==
    [k \in (DOMAIN event_dict) \cup (DOMAIN ctx) |->
        IF k \in DOMAIN event_dict THEN event_dict[k] ELSE ctx[k]]

\* the bound logger's event_dict for logger.<method_name>(event, **kw),
\* passed through the processors configure_logging installs; ctx: the fields
\* bound in the calling context
Processed(event, method_name, kw, ctx, cid, t) ==
    add_log_level(
        add_timestamp(
            add_correlation_id(
                merge_contextvars(DictSet(kw, "event", event), ctx), cid), t),
        method_name)

\* the line a log call of request r writes in context c; var: what
\* correlation_id_var held in c when the call was made
Line(r, c, src, event, method_name, kw, ctx, var, cid, t) ==
    [event |-> Processed(event, method_name, kw, ctx, cid, t),
     req |-> r, ctx |-> c, var |-> var, src |-> src, kw |-> kw]

\* -------------------------------------------------------------- scheduling
\* the synchronous segments of __call__: no await between their steps
SyncPcs == {"bind", "log_start", "except", "finally"}

InFlight(q) == pc[q] \notin {"idle", "done"}

\* request r may take a step: no other task is inside a synchronous segment
MayRun(r) == \A q \in Reqs \ {r} : pc[q] \notin SyncPcs

\* a log call of request r: whether the method is more than a no-op, the line
\* it would write, and the uuid4() draws of add_correlation_id
LogCall(r, src, event, method_name, kw) ==
    LET c == ctxOf[r]
        enabled == ~is_nop(config.min_level, method_name)
        g == get_correlation_id(correlation_id_var, c, uuidCtr)
    IN  [method_name |-> method_name,
         enabled |-> enabled,
         line |-> Line(r, c, src, event, method_name, kw,
                       bound_contextvars[c], VarGet(correlation_id_var, c),
                       g.ret, now),
         drawn |-> IF enabled THEN g.drawn ELSE 0]

\* the log call l returns: it was a no-op, or the processors and the sink
\* write succeeded (ok)
Returns(l, ok) == ok \/ ~l.enabled

\* what the log call l of request r does to the sink and to uuid4()
Emit(r, l, ok) ==
    /\ uuidCtr' = uuidCtr + l.drawn
    /\ sink' = IF l.enabled /\ ok THEN Append(sink, l.line) ELSE sink
    /\ lastLog' = [lastLog EXCEPT ![r] =
           [method_name |-> l.method_name, n |-> 1, entered |-> l.enabled,
            wrote |-> IF l.enabled /\ ok THEN 1 ELSE 0,
            failed |-> l.enabled /\ ~ok, drawn |-> l.drawn]]

\* -------------------------------------------------------------------- Init
\* every task's context starts as a copy of the server's context, in which
\* start-up code has called configure_logging() and has bound an id with
\* set_correlation_id, or has not
BootBindings == {"", "boot-id"}

\* no call of __call__ has been made
InitCalls ==
    /\ uuidCtr = 0
    /\ sink = <<>>
    /\ pc = [r \in Reqs |-> "idle"]
    /\ scope = [r \in Reqs |-> NoScope]
    /\ ctxOf = [r \in Reqs |-> 0]
    /\ correlation_id = [r \in Reqs |-> ""]
    /\ bindingAtCall = [r \in Reqs |-> ""]
    /\ start_time = [r \in Reqs |-> 0]
    /\ status_code = [r \in Reqs |-> 0]
    /\ raised = [r \in Reqs |-> NoExc]
    /\ appRaised = [r \in Reqs |-> NoExc]
    /\ steps = [r \in Reqs |-> 0]
    /\ appCalls = [r \in Reqs |-> <<>>]
    /\ sent = [r \in Reqs |-> <<>>]
    /\ lastGet = [r \in Reqs |-> NoGet]
    /\ appSent = [r \in Reqs |-> <<>>]
    /\ lastSet = [r \in Reqs |-> NoSet]
    /\ lastLog = [r \in Reqs |-> NoLog]

Init ==
    /\ \E b \in BootBindings : correlation_id_var = [c \in Ctxs |-> b]
    /\ now \in Clock
    /\ config = DefaultConfig.config
    /\ bound_contextvars = [c \in Ctxs |-> DefaultConfig.bound]
    /\ InitCalls

\* ----------------------------------------------------------------- actions
\* a middleware that intercepts every scope type
InterceptsAll(sc) == TRUE

\* line 123: the middleware handles the scope itself
Intercepts(sc) == sc.type = "http"

\* __call__(scope, receive, send) is entered in context c; lines 123-125:
\* a scope that is not "http" goes straight to the wrapped app
Call(r, c, sc) ==
    /\ pc[r] = "idle"
    /\ MayRun(r)
    /\ \A q \in Reqs : q < r => pc[q] # "idle"
    /\ \A q \in Reqs : ctxOf[q] = c => ~InFlight(q)
    /\ scope' = [scope EXCEPT ![r] = sc]
    /\ ctxOf' = [ctxOf EXCEPT ![r] = c]
    /\ bindingAtCall' =
          [bindingAtCall EXCEPT ![r] = VarGet(correlation_id_var, c)]
    /\ IF ~Intercepts(sc)
       THEN /\ appCalls' = [appCalls EXCEPT
                   ![r] = Append(@, [scope |-> sc, send |-> "send"])]
            /\ pc' = [pc EXCEPT ![r] = "pass"]
       ELSE /\ pc' = [pc EXCEPT ![r] = "bind"]
            /\ UNCHANGED appCalls
    /\ UNCHANGED <<correlation_id_var, uuidCtr, now, sink, correlation_id,
                   start_time, status_code, raised, appRaised, steps, sent,
                   lastGet>>
    /\ UNCHANGED <<config, bound_contextvars, appSent, lastSet, lastLog>>

\* lines 128-133: the header lookup, the binding, start_time
Bind(r) ==
    /\ pc[r] = "bind"
    /\ LET headers == DictOfPairs(scope[r].headers)
           value == DictGet(headers, XCID, Bytes(""))
       IN  IF ~CanDecode(value)
           THEN /\ raised' = [raised EXCEPT ![r] = DecodeError]
                /\ pc' = [pc EXCEPT ![r] = "done"]
                /\ UNCHANGED <<correlation_id_var, uuidCtr, correlation_id,
                               start_time>>
           ELSE LET decoded == Decode(value)
                    extracted ==
                        IF decoded # "" THEN decoded ELSE Uuid(uuidCtr + 1)
                    n1 == IF decoded # "" THEN uuidCtr ELSE uuidCtr + 1
                    s == set_correlation_id(correlation_id_var, ctxOf[r],
                                            extracted, n1)
                IN  /\ correlation_id' =
                          [correlation_id EXCEPT ![r] = extracted]
                    /\ correlation_id_var' = s.store
                    /\ uuidCtr' = n1 + s.drawn
                    /\ start_time' = [start_time EXCEPT ![r] = now]
                    /\ pc' = [pc EXCEPT ![r] = "log_start"]
                    /\ UNCHANGED raised
    /\ UNCHANGED <<now, sink, scope, ctxOf, bindingAtCall, status_code,
                   appRaised, steps, appCalls, sent, lastGet>>
    /\ UNCHANGED <<config, bound_contextvars, appSent, lastSet, lastLog>>

\* lines 135-152: logger.info("request_started", ...), status_code = 500 and
\* the call of the wrapped app with send_wrapper; ok: the log call returns
LogStart(r, ok) ==
    /\ pc[r] = "log_start"
    /\ LET l == LogCall(r, "middleware", "request_started", "info",
                        [method |-> scope[r].method, path |-> scope[r].path])
       IN  /\ Emit(r, l, ok)
           /\ IF Returns(l, ok)
              THEN /\ status_code' = [status_code EXCEPT ![r] = DefaultStatus]
                   /\ appCalls' = [appCalls EXCEPT
                          ![r] = Append(@, [scope |-> scope[r],
                                            send |-> "send_wrapper"])]
                   /\ pc' = [pc EXCEPT ![r] = "app"]
                   /\ UNCHANGED raised
              ELSE /\ raised' =
                         [raised EXCEPT ![r] = LogFailure("request_started")]
                   /\ pc' = [pc EXCEPT ![r] = "done"]
                   /\ UNCHANGED <<status_code, appCalls>>
    /\ UNCHANGED <<correlation_id_var, now, scope, ctxOf, start_time,
                   appRaised, steps, sent, lastGet>>
    /\ UNCHANGED <<correlation_id, bindingAtCall>>
    /\ UNCHANGED <<config, bound_contextvars, appSent, lastSet>>

\* a send_wrapper that keeps the first status it saw
send_wrapper_first(current, message) ==
    IF message.type = "http.response.start" /\ current = DefaultStatus
    THEN message.status
    ELSE current

\* lines 146-148: the status_code send_wrapper leaves for a message
send_wrapper(current, message) ==
    IF message.type = "http.response.start" THEN message.status ELSE current

\* a send_wrapper that keeps http.response.start to itself
send_wrapper_swallow(message) ==
    IF message.type = "http.response.start" THEN <<>> ELSE <<message>>

\* line 149: the messages send_wrapper passes to the send __call__ was given
send_wrapper_sends(message) == <<message>>

\* the wrapped app calls the send it was given: send_wrapper (lines 145-149)
\* for an intercepted request, the caller's send otherwise
AppSend(r, message) ==
    /\ pc[r] \in {"app", "pass"}
    /\ MayRun(r)
    /\ steps[r] < MaxSteps
    /\ steps' = [steps EXCEPT ![r] = @ + 1]
    /\ status_code' =
         IF pc[r] = "app"
         THEN [status_code EXCEPT ![r] = send_wrapper(@, message)]
         ELSE status_code
    /\ appSent' = [appSent EXCEPT ![r] = Append(@, message)]
    /\ sent' = [sent EXCEPT ![r] =
                   IF pc[r] = "app"
                   THEN @ \o send_wrapper_sends(message)
                   ELSE Append(@, message)]
    /\ UNCHANGED <<correlation_id_var, uuidCtr, now, sink, pc, scope, ctxOf,
                   start_time, raised, appRaised, appCalls, lastGet>>
    /\ UNCHANGED <<correlation_id, bindingAtCall>>
    /\ UNCHANGED <<config, bound_contextvars, lastSet, lastLog>>

\* the wrapped app leaves by an exception e (lines 153-156)
Leave(r, e) ==
    /\ raised' = [raised EXCEPT ![r] = e]
    /\ appRaised' = [appRaised EXCEPT ![r] = e]
    /\ pc' = [pc EXCEPT ![r] =
                 IF pc[r] = "pass" THEN "done"
                 ELSE IF IsException(e) THEN "except" ELSE "finally"]

\* the wrapped app logs an event of its own with logger.<method_name>; a
\* failing log call raises in it
AppLogAt(r, method_name, kw, ok) ==
    /\ pc[r] \in {"app", "pass"}
    /\ MayRun(r)
    /\ steps[r] < MaxSteps
    /\ steps' = [steps EXCEPT ![r] = @ + 1]
    /\ LET l == LogCall(r, "app", "app_event", method_name, kw)
       IN  /\ Emit(r, l, ok)
           /\ IF Returns(l, ok)
              THEN UNCHANGED <<pc, raised, appRaised>>
              ELSE Leave(r, LogFailure("app_event"))
    /\ UNCHANGED <<correlation_id_var, now, scope, ctxOf, start_time,
                   status_code, appCalls, sent, lastGet>>
    /\ UNCHANGED <<correlation_id, bindingAtCall>>
    /\ UNCHANGED <<config, bound_contextvars, appSent, lastSet>>

\* the wrapped app logs with logger.info
AppLog(r, kw, ok) == AppLogAt(r, "info", kw, ok)

\* the wrapped app calls get_correlation_id()
AppGet(r) ==
    /\ pc[r] \in {"app", "pass"}
    /\ MayRun(r)
    /\ steps[r] < MaxSteps
    /\ steps' = [steps EXCEPT ![r] = @ + 1]
    /\ LET c == ctxOf[r]
           g == get_correlation_id(correlation_id_var, c, uuidCtr)
       IN  /\ correlation_id_var' = g.store
           /\ uuidCtr' = uuidCtr + g.drawn
           /\ lastGet' = [lastGet EXCEPT ![r] =
                  [ret |-> g.ret,
                   before |-> VarGet(correlation_id_var, c),
                   after |-> VarGet(g.store, c),
                   n |-> @.n + 1]]
    /\ UNCHANGED <<now, sink, pc, scope, ctxOf, start_time, status_code,
                   raised, appRaised, appCalls, sent>>
    /\ UNCHANGED <<correlation_id, bindingAtCall>>
    /\ UNCHANGED <<config, bound_contextvars, appSent, lastSet, lastLog>>

\* what the wrapped app passes to set_correlation_id
Givens == {"", "set-1"}

\* the wrapped app calls set_correlation_id(given)
AppSet(r, given) ==
    /\ pc[r] \in {"app", "pass"}
    /\ MayRun(r)
    /\ steps[r] < MaxSteps
    /\ steps' = [steps EXCEPT ![r] = @ + 1]
    /\ LET s == set_correlation_id(correlation_id_var, ctxOf[r], given,
                                   uuidCtr)
       IN  /\ correlation_id_var' = s.store
           /\ uuidCtr' = uuidCtr + s.drawn
           /\ lastSet' = [lastSet EXCEPT ![r] =
                  [given |-> given, ret |-> s.ret, n |-> 1,
                   atGet |-> lastGet[r].n]]
    /\ UNCHANGED <<now, sink, pc, scope, ctxOf, start_time, status_code,
                   raised, appRaised, appCalls, sent, lastGet>>
    /\ UNCHANGED <<correlation_id, bindingAtCall>>
    /\ UNCHANGED <<config, bound_contextvars, appSent, lastLog>>

\* the wrapped app returns
AppReturn(r) ==
    /\ pc[r] \in {"app", "pass"}
    /\ MayRun(r)
    /\ pc' = [pc EXCEPT ![r] = IF pc[r] = "pass" THEN "done" ELSE "finally"]
    /\ UNCHANGED <<correlation_id_var, uuidCtr, now, sink, scope, ctxOf,
                   start_time, status_code, raised, appRaised, steps,
                   appCalls, sent, lastGet>>
    /\ UNCHANGED <<correlation_id, bindingAtCall>>
    /\ UNCHANGED <<config, bound_contextvars, appSent, lastSet, lastLog>>

\* the wrapped app raises e, or is cancelled
AppRaise(r, e) ==
    /\ pc[r] \in {"app", "pass"}
    /\ MayRun(r)
    /\ Leave(r, e)
    /\ UNCHANGED <<correlation_id_var, uuidCtr, now, sink, scope, ctxOf,
                   start_time, status_code, steps, appCalls, sent, lastGet>>
    /\ UNCHANGED <<correlation_id, bindingAtCall>>
    /\ UNCHANGED <<config, bound_contextvars, appSent, lastSet, lastLog>>

\* lines 153-155: logger.exception("request_error", error=str(e)); raise
LogError(r, ok) ==
    /\ pc[r] = "except"
    /\ LET l == LogCall(r, "middleware", "request_error", "exception",
                        [error |-> Str(raised[r])])
       IN  /\ Emit(r, l, ok)
           /\ IF Returns(l, ok)
              THEN UNCHANGED raised
              ELSE raised' =
                      [raised EXCEPT ![r] = LogFailure("request_error")]
    /\ pc' = [pc EXCEPT ![r] = "finally"]
    /\ UNCHANGED <<correlation_id_var, now, scope, ctxOf, start_time,
                   status_code, appRaised, steps, appCalls, sent, lastGet>>
    /\ UNCHANGED <<correlation_id, bindingAtCall>>
    /\ UNCHANGED <<config, bound_contextvars, appSent, lastSet>>

\* (datetime.utcnow() - start_time).total_seconds()
Duration(t, start) == t - start

\* lines 156-164: the finally clause
LogCompleted(r, ok) ==
    /\ pc[r] = "finally"
    /\ LET l == LogCall(r, "middleware", "request_completed", "info",
                        [method |-> scope[r].method, path |-> scope[r].path,
                         status_code |-> status_code[r],
                         duration_seconds |-> Duration(now, start_time[r])])
       IN  /\ Emit(r, l, ok)
           /\ IF Returns(l, ok)
              THEN UNCHANGED raised
              ELSE raised' =
                      [raised EXCEPT ![r] = LogFailure("request_completed")]
    /\ pc' = [pc EXCEPT ![r] = "done"]
    /\ UNCHANGED <<correlation_id_var, now, scope, ctxOf, start_time,
                   status_code, appRaised, steps, appCalls, sent, lastGet>>
    /\ UNCHANGED <<correlation_id, bindingAtCall>>
    /\ UNCHANGED <<config, bound_contextvars, appSent, lastSet>>

\* the wall clock moves while the tasks are suspended: time passes, or the
\* clock is set back
ClockStep(t) ==
    /\ t # now
    /\ \A q \in Reqs : pc[q] \notin SyncPcs
    /\ \E q \in Reqs : InFlight(q)
    /\ now' = t
    /\ UNCHANGED <<correlation_id_var, uuidCtr, sink, pc, scope, ctxOf,
                   start_time, status_code, raised, appRaised, steps,
                   appCalls, sent, lastGet>>
    /\ UNCHANGED <<correlation_id, bindingAtCall>>
    /\ UNCHANGED <<config, bound_contextvars, appSent, lastSet, lastLog>>

\* the contexts are interchangeable: calls take them in order
UsedCtxs == {ctxOf[q] : q \in Reqs} \ {0}

\* one call of __call__, with every outcome of its app and of its log calls
Solo == {1}

Next ==
    \/ \E r \in Solo, c \in Ctxs, sc \in Scopes :
          c <= Cardinality(UsedCtxs) + 1 /\ Call(r, c, sc)
    \/ \E r \in Solo : Bind(r)
    \/ \E r \in Solo, ok \in BOOLEAN : LogStart(r, ok)
    \/ \E r \in Solo, m \in Messages : AppSend(r, m)
    \/ \E r \in Solo, kw \in AppKws, ok \in BOOLEAN : AppLog(r, kw, ok)
    \/ \E r \in Solo : AppGet(r)
    \/ \E r \in Solo : AppReturn(r)
    \/ \E r \in Solo, e \in AppExcs : AppRaise(r, e)
    \/ \E r \in Solo, ok \in BOOLEAN : LogError(r, ok)
    \/ \E r \in Solo, ok \in BOOLEAN : LogCompleted(r, ok)
    \/ \E t \in Clock : ClockStep(t)

Spec == Init /\ [][Next]_vars

\* several calls of __call__, one after another in one context or interleaved
\* in different ones, whose apps and log calls all return and whose apps
\* share the step budget; the scopes are "http" and carry no
\* x-correlation-id header or an empty one, so that every call generates its id
PairScopes ==
    { sc \in Scopes :
        /\ sc.type = "http"
        /\ sc.headers \in { <<>>, << <<XCID, Bytes("")>> >> } }

RECURSIVE SumSteps(_)
SumSteps(n) == IF n = 0 THEN 0 ELSE steps[n] + SumSteps(n - 1)

Budget == SumSteps(NumReqs) < MaxSteps

NextPair ==
    \/ \E r \in Reqs, c \in Ctxs, sc \in PairScopes :
          c <= Cardinality(UsedCtxs) + 1 /\ Call(r, c, sc)
    \/ \E r \in Reqs : Bind(r)
    \/ \E r \in Reqs : LogStart(r, TRUE)
    \/ \E r \in Reqs : Budget /\ AppLog(r, NoKw, TRUE)
    \/ \E r \in Reqs : Budget /\ AppGet(r)
    \/ \E r \in Reqs : AppReturn(r)
    \/ \E r \in Reqs : LogCompleted(r, TRUE)

InitPair == Init /\ now = 0 /\ correlation_id_var = [c \in Ctxs |-> ""]

SpecPair == InitPair /\ [][NextPair]_vars

\* configure_logging(level, service_name=..., environment=...) is called in
\* context c, once (lines 85-99)
Configure(c, level, service_name, environment) ==
    /\ ~config.configured
    /\ LET cfg == configure_logging(level, service_name, environment)
       IN  /\ config' = cfg.config
           /\ bound_contextvars' = [bound_contextvars EXCEPT
                  ![c] = bind_contextvars(@, cfg.bound)]
    /\ UNCHANGED <<correlation_id_var, uuidCtr, now, sink, pc, scope, ctxOf,
                   correlation_id, bindingAtCall, start_time, status_code,
                   raised, appRaised, steps, appCalls, sent, lastGet,
                   appSent, lastSet, lastLog>>

\* a task or a copy_context() is created in context p: the new context c
\* starts as a copy of p, with every ContextVar as p has it
Fork(p, c) ==
    /\ config.configured
    /\ c # p
    /\ c \notin UsedCtxs
    /\ \A q \in Reqs : pc[q] \notin SyncPcs
    /\ \/ correlation_id_var[c] # correlation_id_var[p]
       \/ bound_contextvars[c] # bound_contextvars[p]
    /\ correlation_id_var' =
          [correlation_id_var EXCEPT ![c] = correlation_id_var[p]]
    /\ bound_contextvars' =
          [bound_contextvars EXCEPT ![c] = bound_contextvars[p]]
    /\ UNCHANGED <<uuidCtr, now, sink, pc, scope, ctxOf, correlation_id,
                   bindingAtCall, start_time, status_code, raised, appRaised,
                   steps, appCalls, sent, lastGet, config, appSent, lastSet,
                   lastLog>>

\* calls of __call__ whose apps use the library themselves, in a process
\* that calls configure_logging in one of its contexts; contexts that are
\* not forked from it afterwards are threads, or tasks created before
AppScopes ==
    { sc \in Scopes : sc.type # "http" \/ sc.headers = <<>> }

AppMethods == {"debug", "info", "error"}

\* the service_name and environment configure_logging is called with
ServiceName == "svc"
Environment == "prod"

NextApp ==
    \/ \E c \in Ctxs, level \in Levels :
          Configure(c, level, ServiceName, Environment)
    \/ \E p, c \in Ctxs : Fork(p, c)
    \/ \E r \in Solo, c \in Ctxs, sc \in AppScopes :
          config.configured /\ Call(r, c, sc)
    \/ \E r \in Solo : Bind(r)
    \/ \E r \in Solo : LogStart(r, TRUE)
    \/ \E r \in Solo, given \in Givens : AppSet(r, given)
    \/ \E r \in Solo : AppGet(r)
    \/ \E r \in Solo, m \in AppMethods, ok \in BOOLEAN :
          AppLogAt(r, m, NoKw, ok)
    \/ \E r \in Solo : AppReturn(r)
    \/ \E r \in Solo : LogError(r, TRUE)
    \/ \E r \in Solo : LogCompleted(r, TRUE)

InitApp ==
    /\ correlation_id_var = [c \in Ctxs |-> ""]
    /\ now = 0
    /\ config = NotConfigured
    /\ bound_contextvars = [c \in Ctxs |-> <<>>]
    /\ InitCalls

SpecApp == InitApp /\ [][NextApp]_vars

\* ------------------------------------------------------------------ claims
\* the lines request r's log calls wrote
LinesOf(r) == SelectSeq(sink, LAMBDA l : l.req = r)

\* the lines the middleware wrote for request r with event name ev
MwLines(r, ev) ==
    SelectSeq(sink, LAMBDA l : l.req = r /\ l.src = "middleware"
                               /\ l.event.event = ev)

AppLines(r) == SelectSeq(sink, LAMBDA l : l.req = r /\ l.src = "app")

\* the http.response.start messages that passed through r's send wrapper
StartsSeen(r) == SelectSeq(sent[r], LAMBDA m : m.type = "http.response.start")

Returned(r) == pc[r] = "done"

IsHttp(r) == scope[r].type = "http"

\* C1: every intercepted request (scope type "http") that has left __call__
\* has exactly one "request_started" and exactly one "request_completed"
\* line, however its app ended.
C1_OneStartOneCompletion ==
    \A r \in Reqs :
        (IsHttp(r) /\ Returned(r)) =>
            /\ Len(MwLines(r, "request_started")) = 1
            /\ Len(MwLines(r, "request_completed")) = 1

C3_ErrorLoggedThenReraised ==
    \A r \in Reqs :
        (IsHttp(r) /\ Returned(r) /\ IsException(appRaised[r])) =>
            /\ raised[r] = appRaised[r]
            /\ Len(MwLines(r, "request_error")) = 1
            /\ MwLines(r, "request_error")[1].event.error = Str(appRaised[r])
            /\ \E i, j \in 1..Len(LinesOf(r)) :
                  /\ i < j
                  /\ LinesOf(r)[i].event.event = "request_error"
                  /\ LinesOf(r)[j].event.event = "request_completed"

\* every line of request r carries correlation id v
AllLinesCarry(r, v) ==
    \A i \in 1..Len(sink) :
        sink[i].req = r =>
            /\ "correlation_id" \in DOMAIN sink[i].event
            /\ sink[i].event.correlation_id = v

LastXcid(r) ==
    LET idx == {i \in 1..Len(scope[r].headers) : scope[r].headers[i][1] = XCID}
    IN  IF idx = {} THEN 0 ELSE CHOOSE i \in idx : \A j \in idx : j <= i

NoHeaderId(r) ==
    /\ IsHttp(r)
    /\ \A i \in 1..Len(scope[r].headers) :
          scope[r].headers[i][1] = XCID => scope[r].headers[i][2] = Bytes("")

\* request r has run lines 128-130
HasBound(r) == pc[r] \in {"log_start", "app", "except", "finally"}
                 \/ (pc[r] = "done" /\ correlation_id[r] # "")

Generated == {Uuid(n) : n \in 1..uuidCtr}

C6_ContextIsolation ==
    \A r, q \in Reqs :
        (/\ r # q
         /\ HasBound(r) /\ HasBound(q)
         /\ ctxOf[r] # ctxOf[q]
         /\ correlation_id[r] # correlation_id[q]) =>
            /\ lastGet[r].n > 0 => lastGet[r].ret # correlation_id[q]
            /\ \A i \in 1..Len(sink) :
                  sink[i].req = r =>
                      sink[i].event.correlation_id # correlation_id[q]

\* C6 witness: two requests whose apps are both running, in different
\* contexts with different ids bound, each having called get_correlation_id()
C6_Witness ==
    \E r, q \in Reqs :
        /\ r # q
        /\ pc[r] = "app" /\ pc[q] = "app"
        /\ ctxOf[r] # ctxOf[q]
        /\ correlation_id[r] # correlation_id[q]
        /\ lastGet[r].n > 0 /\ lastGet[q].n > 0

\* C7: for a scope that is not "http" the wrapped app is called exactly once,
\* with the scope and the send the middleware was given, the middleware
\* writes no line, and the context's binding stays what it was at the call.
C7_PassThrough ==
    \A r \in Reqs :
        (pc[r] # "idle" /\ scope[r].type # "http") =>
            /\ appCalls[r] = << [scope |-> scope[r], send |-> "send"] >>
            /\ \A i \in 1..Len(LinesOf(r)) : LinesOf(r)[i].src # "middleware"
            /\ VarGet(correlation_id_var, ctxOf[r]) = bindingAtCall[r]

\* C7 witness: a websocket call, made in a context with an id bound, whose
\* app logged, sent a message and returned
C7_Witness ==
    \E r \in Reqs :
        /\ scope[r].type = "websocket"
        /\ Returned(r)
        /\ bindingAtCall[r] = "boot-id"
        /\ Len(AppLines(r)) = 1
        /\ Len(sent[r]) = 1

\* C8: a correlation_id or timestamp the caller of a log call passed is the
\* one the written line carries.
C8_CallerFieldsKept ==
    \A i \in 1..Len(sink) :
        \A k \in (DOMAIN sink[i].kw) \cap {"correlation_id", "timestamp"} :
            sink[i].event[k] = sink[i].kw[k]

\* C9: a failing log call never changes what the caller of __call__ sees: the
\* app of every intercepted request (whose header could be decoded) is called
\* once, and __call__ returns if the app returned and raises the app's
\* exception if the app raised.
C9_LogFailureInvisible ==
    \A r \in Reqs :
        (IsHttp(r) /\ Returned(r) /\ raised[r] # DecodeError) =>
            /\ Len(appCalls[r]) = 1
            /\ raised[r] = appRaised[r]

\* C10: get_correlation_id() never returns "" and never changes the binding;
\* with no id bound it returns an id nothing else carries, and the context is
\* still unbound afterwards.
C10_GetHasNoEffect ==
    \A r \in Reqs :
        lastGet[r].n > 0 =>
            /\ lastGet[r].ret # ""
            /\ lastGet[r].after = lastGet[r].before
            /\ lastGet[r].before # "" => lastGet[r].ret = lastGet[r].before
            /\ lastGet[r].before = "" =>
                  /\ lastGet[r].ret \in Generated
                  /\ \A c \in Ctxs : correlation_id_var[c] # lastGet[r].ret
                  /\ \A i \in 1..Len(sink) :
                        sink[i].event.correlation_id # lastGet[r].ret

\* C10 witness: a second get_correlation_id() in a context that was unbound
\* before the first one, which finds it unbound again
C10_Witness ==
    \E r \in Reqs :
        /\ lastGet[r].n = 2
        /\ bindingAtCall[r] = ""
        /\ lastGet[r].before = ""
        /\ lastGet[r].ret = Uuid(2)

\* C11: set_correlation_id(v) binds v when v is non-empty and a generated id
\* when v is empty or absent, returns the id it bound, and every
\* get_correlation_id() made in that context after it returns that id.
C11_SetThenGet ==
    \A r \in Reqs :
        lastSet[r].n > 0 =>
            /\ lastSet[r].given # "" => lastSet[r].ret = lastSet[r].given
            /\ lastSet[r].given = "" =>
                  /\ lastSet[r].ret \in Generated
                  /\ lastSet[r].ret # correlation_id[r]
                  /\ lastSet[r].ret # bindingAtCall[r]
            /\ InFlight(r) =>
                  VarGet(correlation_id_var, ctxOf[r]) = lastSet[r].ret
            /\ lastGet[r].n > lastSet[r].atGet =>
                  /\ lastGet[r].ret = lastSet[r].ret
                  /\ lastGet[r].before = lastSet[r].ret

\* C11 witness: an intercepted request whose app called
\* set_correlation_id() without a value, after the middleware had bound an
\* id of its own, and then get_correlation_id()
C11_Witness ==
    \E r \in Reqs :
        /\ IsHttp(r)
        /\ lastSet[r].n > 0
        /\ lastSet[r].given = ""
        /\ lastGet[r].n > lastSet[r].atGet
        /\ lastGet[r].ret = Uuid(2)

\* C12: once configure_logging(service_name=S, environment=E) has run, every
\* line written carries service = S and environment = E, whichever context
\* the log call is made in.
C12_ServiceEverywhere ==
    config.configured =>
        \A i \in 1..Len(sink) :
            /\ "service" \in DOMAIN sink[i].event
            /\ "environment" \in DOMAIN sink[i].event
            /\ sink[i].event.service = ServiceName
            /\ sink[i].event.environment = Environment

\* bytes.lower() of a header name
Lower(b) ==
    IF b.text = "X-Correlation-Id"
    THEN [b EXCEPT !.text = "x-correlation-id"]
    ELSE b

\* C13: an intercepted request whose (only) header named x-correlation-id,
\* in whatever letter case, has a non-empty value binds that value as its
\* correlation id.
C13_HeaderAnyCase ==
    \A r \in Reqs :
        (/\ IsHttp(r)
         /\ HasBound(r)
         /\ Len(scope[r].headers) = 1
         /\ Lower(scope[r].headers[1][1]) = XCID
         /\ CanDecode(scope[r].headers[1][2])
         /\ Decode(scope[r].headers[1][2]) # "") =>
            /\ correlation_id[r] = Decode(scope[r].headers[1][2])
            /\ InFlight(r) => VarGet(correlation_id_var, ctxOf[r])
                                = Decode(scope[r].headers[1][2])

\* C14: a log call below the configured level runs no processor (no
\* add_correlation_id, so no uuid4() draw; no add_timestamp) and writes no
\* line; a call at or above it runs the processors and, unless the call
\* raises, writes exactly one line.
C14_LevelFilter ==
    /\ \A r \in Reqs :
          lastLog[r].n > 0 =>
              IF MethodLevel(lastLog[r].method_name) < config.min_level
              THEN /\ ~lastLog[r].entered
                   /\ lastLog[r].wrote = 0
                   /\ lastLog[r].drawn = 0
                   /\ ~lastLog[r].failed
              ELSE /\ lastLog[r].entered
                   /\ lastLog[r].wrote = IF lastLog[r].failed THEN 0 ELSE 1
    /\ \A i \in 1..Len(sink) :
          MethodLevel(sink[i].event.level) >= config.min_level

\* C14 witness: under level INFO, an app in a context with no id bound
\* logged with info, which wrote a line, and then with debug, which did not
C14_Witness ==
    \E r \in Reqs :
        /\ config.min_level = getLevelName("INFO")
        /\ scope[r].type = "websocket"
        /\ VarGet(correlation_id_var, ctxOf[r]) = ""
        /\ steps[r] = 2
        /\ lastLog[r].method_name = "debug"
        /\ Len(AppLines(r)) = 1
        /\ Len(sink) = 1

\* C15: when several http.response.start messages went through the send
\* wrapper, the status_code of "request_completed" is the status of the
\* first of them.
C15_FirstStatusKept ==
    \A r \in Reqs :
        \A i \in 1..Len(MwLines(r, "request_completed")) :
            Len(StartsSeen(r)) > 0 =>
                MwLines(r, "request_completed")[i].event.status_code
                    = StartsSeen(r)[1].status

\* C16: the send __call__ was given receives exactly the messages the app
\* passed to the send it was given: the same messages, once each, in the
\* same order, as when the app holds that send itself.
C16_SendTransparent ==
    \A r \in Reqs : sent[r] = appSent[r]

\* C16 witness: the app of an intercepted request sent a response start and
\* then a body message through the wrapper
C16_Witness ==
    \E r \in Reqs :
        /\ IsHttp(r)
        /\ Len(appCalls[r]) = 1
        /\ appCalls[r][1].send = "send_wrapper"
        /\ appSent[r] = <<StartMsg(200), BodyMsg>>

\* C17: every intercepted request takes the steps in order, each once: its
\* id is bound before its start line is written, the start line is written
\* before the app is called, the app is called exactly once, and the
\* completion line is written only after the app has returned or raised.
C17_LinearOrder ==
    \A r \in Reqs :
        IsHttp(r) =>
            /\ \A i \in 1..Len(MwLines(r, "request_started")) :
                  /\ correlation_id[r] # ""
                  /\ MwLines(r, "request_started")[i].var = correlation_id[r]
            /\ Len(appCalls[r]) > 0 =>
                  Len(MwLines(r, "request_started")) = 1
            /\ Len(appCalls[r]) <= 1
            /\ Returned(r) => Len(appCalls[r]) = 1
            /\ Len(MwLines(r, "request_completed")) > 0 =>
                  /\ Returned(r)
                  /\ Len(appCalls[r]) = 1
                  /\ Len(MwLines(r, "request_completed")) = 1

\* C18: the duration_seconds of every "request_completed" line is >= 0,
\* whatever the wall clock read at line 133 and at line 157.
C18_DurationNonNegative ==
    \A r \in Reqs :
        \A i \in 1..Len(MwLines(r, "request_completed")) :
            MwLines(r, "request_completed")[i].event.duration_seconds >= 0

\* the requests called before r in the context r runs in
Earlier(r) == {q \in Reqs : q < r /\ ctxOf[q] = ctxOf[r] /\ ctxOf[r] # 0}

\* the request called last before r in the context r runs in
Prev(r) == CHOOSE q \in Earlier(r) : \A p \in Earlier(r) : p <= q

\* the last request called in context c (0: none)
LastIn(c) ==
    LET rs == {q \in Reqs : ctxOf[q] = c}
    IN  IF rs = {} THEN 0 ELSE CHOOSE q \in rs : \A p \in rs : p <= q

\* C19: for intercepted requests that run one after another in one context:
\* the id of the request before is still bound when the next one is called
\* (nothing clears it), every line of a later request carries the id that
\* request bound and none the id of an earlier one, and once the last request
\* has returned its id is still bound in that context.
C19_RebindNoClear ==
    /\ \A r \in Reqs :
          Earlier(r) # {} =>
              /\ bindingAtCall[r] = correlation_id[Prev(r)]
              /\ AllLinesCarry(r, correlation_id[r])
              /\ \A q \in Earlier(r) :
                    \A i \in 1..Len(sink) :
                        sink[i].req = r =>
                            sink[i].event.correlation_id # correlation_id[q]
    /\ \A c \in Ctxs :
          (LastIn(c) # 0 /\ Returned(LastIn(c))) =>
              VarGet(correlation_id_var, c) = correlation_id[LastIn(c)]

\* C19 witness: two requests have run one after the other in one context,
\* the later one with a start line, a line of its app and a completion line
C19_Witness ==
    \E r \in Reqs :
        /\ Earlier(r) # {}
        /\ Returned(r) /\ Returned(Prev(r))
        /\ Len(MwLines(Prev(r), "request_completed")) = 1
        /\ Len(MwLines(r, "request_started")) = 1
        /\ Len(AppLines(r)) = 1
        /\ Len(MwLines(r, "request_completed")) = 1
        /\ bindingAtCall[r] = Uuid(1)
        /\ VarGet(correlation_id_var, ctxOf[r]) = Uuid(2)

\* C20: every line written carries a non-empty correlation_id; a line logged
\* in a context with no id bound carries a generated id that no other line
\* carries, so two lines logged in one unbound context differ in it.
C20_AlwaysAnId ==
    \A i \in 1..Len(sink) :
        /\ "correlation_id" \in DOMAIN sink[i].event
        /\ sink[i].event.correlation_id # ""
        /\ sink[i].var # "" => sink[i].event.correlation_id = sink[i].var
        /\ sink[i].var = "" =>
              /\ sink[i].event.correlation_id \in Generated
              /\ \A j \in 1..Len(sink) :
                    j # i => sink[j].event.correlation_id
                               # sink[i].event.correlation_id

\* C20 witness: two lines logged in the same context while it had no id
\* bound, one of them with a correlation_id the caller passed
C20_Witness ==
    \E i, j \in 1..Len(sink) :
        /\ i < j
        /\ sink[i].ctx = sink[j].ctx
        /\ sink[i].var = "" /\ sink[j].var = ""
        /\ sink[j].kw = CallerKw

====
